---- MODULE Spec2Model ----
(***************************************************************************)
(* waybar_note: a local JSON note list (notes_manager.py) reconciled with  *)
(* Google Tasks (google_tasks_sync.py).                                    *)
(*                                                                         *)
(* State: the two files under ~/.config/waybar-notes (notes.json and       *)
(* sync_state.json) and the remote task lists.  Every CLI run of the sync  *)
(* script is one process: it loads both files, runs a pass and saves.      *)
(* A pass is one action; the transport failures it meets and the point at  *)
(* which the caller's subprocess timeout kills it are inputs of the action.*)
(*                                                                         *)
(* Environment: the remote account has two task lists, always listed in    *)
(* the same order; a listing returns all tasks of a list; tasks are added  *)
(* and edited remotely but not deleted or moved.  Init is a fresh install: *)
(* no notes.json and no sync_state.json.  Timestamps are tokens: "now" for *)
(* a clock read, "rts" for the completion time the remote service reports. *)
(* The variable last is a history variable: the last operation, the run    *)
(* before it, the state it started from and the calls it made.             *)
(***************************************************************************)
EXTENDS Integers, Sequences, FiniteSets, TLC

\* ---------------------------------------------------------------- bounds
MaxClock   == 4        \* operations ever run (each reads the clock once)
MaxCreated == 2        \* notes ever created, locally or by a pull
MaxTid     == 2        \* remote tasks ever created, by a push or remotely

Texts    == {"a", "b"}
Statuses == {"needsAction", "completed"}

\* str(note['id']) and int(local_id) on the ids the bounds allow
Digits == <<"1", "2", "3", "4", "5", "6", "7", "8", "9">>
Str(i) == Digits[i]
ToInt(s) == CHOOSE i \in DOMAIN Digits : Digits[i] = s

\* ids the remote service hands out, in order of creation
TaskIds == <<"T1", "T2", "T3", "T4", "T5", "T6", "T7", "T8", "T9">>

\* the remote containers, in the order tasklists().list() returns them
Lists   == << [id |-> "L1", title |-> "My Tasks"], [id |-> "L2", title |-> "Work"] >>
ListIds == {Lists[i].id : i \in DOMAIN Lists}

SeqMax(S) == CHOOSE m \in S : \A x \in S : x <= m
Range(s)  == {s[i] : i \in DOMAIN s}

VARIABLES
  notes_file,    \* notes.json: the Record Store, a list of notes
  sync_file,     \* sync_state.json: [mapping, last_sync]; last_sync 0 is null
  remote,        \* list id -> sequence of remote tasks, in listing order
  nextTid,       \* index of the next id the remote service assigns
  nextCreated,   \* the local clock read by add_note for 'created'
  clock,         \* the clock: every operation takes one tick
  last,          \* what the last operation was and what it did (history)
  tui,           \* the NotesTUI session: its fields and where it is in run
  writing        \* the save that has opened its file and not yet closed it

vars == <<notes_file, sync_file, remote, nextTid, nextCreated, clock, last, tui, writing>>

\* ------------------------------------------------------------ Record Store
generate_id(notes) ==
  IF notes = <<>> THEN 1 ELSE SeqMax({notes[i].id : i \in DOMAIN notes}) + 1

add_note(notes, text, now) ==
  Append(notes, [id |-> generate_id(notes), text |-> text, done |-> FALSE,
                 created |-> now, completed |-> "None"])

\* index of the first note with this id, 0 when there is none
FirstWithId(notes, id) ==
  IF \E i \in DOMAIN notes : notes[i].id = id
  THEN CHOOSE i \in DOMAIN notes :
         /\ notes[i].id = id
         /\ \A j \in DOMAIN notes : notes[j].id = id => i <= j
  ELSE 0

toggle_note(notes, id) ==
  LET i == FirstWithId(notes, id) IN
  IF i = 0 THEN notes
  ELSE [notes EXCEPT ![i] = [@ EXCEPT !.done = ~@,
                                      !.completed = IF ~notes[i].done THEN "now" ELSE "None"]]

delete_note(notes, id) == SelectSeq(notes, LAMBDA n : n.id # id)

\* ------------------------------------------------------------ Remote Client
get_all_task_lists(listsOk) == IF listsOk THEN Lists ELSE <<>>

\* mutant: the status is not derived from done
TaskBody_Undone(note) ==
  [title |-> note.text, status |-> "needsAction"]

TaskBody(note) ==
  [title |-> note.text, status |-> IF note.done THEN "completed" ELSE "needsAction"]

\* tasks().insert: the service assigns the id and puts the task first in the list
RemoteInsert(rem, list_id, tid, body, origin) ==
  [rem EXCEPT ![list_id] =
     << [id |-> tid, title |-> body.title, status |-> body.status,
         completed |-> IF body.status = "completed" THEN "rts" ELSE "None",
         origin |-> origin] >> \o @]

HasTask(rem, list_id, tid) ==
  /\ list_id \in DOMAIN rem
  /\ \E i \in DOMAIN rem[list_id] : rem[list_id][i].id = tid

\* tasks().update: title and status of the task with this id in this list
RemoteUpdate(rem, list_id, tid, body) ==
  [rem EXCEPT ![list_id] =
     [i \in DOMAIN @ |->
        IF @[i].id = tid
        THEN [@[i] EXCEPT !.title = body.title, !.status = body.status,
                          !.completed = IF body.status = "completed" THEN "rts" ELSE "None"]
        ELSE @[i]]]

AllTasks(rem) == UNION {Range(rem[l]) : l \in DOMAIN rem}

\* ------------------------------------------------------------ Identity Map
\* A mapping value is a dict {task_id, list_id, list_name} or, in the legacy
\* format, a bare string: Legacy(s) stands for the JSON string s.
Legacy(s) == [bare |-> s]

\* isinstance(mapping, dict)
IsDict(entry) == "bare" \notin DOMAIN entry

\* mapping['task_id'] and mapping['list_id'] evaluate: on a str the subscript
\* raises TypeError, on a dict without the key KeyError
Subscriptable(entry) == {"task_id", "list_id"} \subseteq DOMAIN entry

\* What sync_state.json can hold besides a SyncState: nothing (no file),
\* bytes that are no text, text that is no JSON, and JSON that is no
\* SyncState, of which {"last_sync": null} stands for all.
Missing   == [file |-> "missing"]
NotText   == [file |-> "not text"]
NotJson   == [file |-> "not json"]
NoMapping == [last_sync |-> 0]

FileKind(file) == IF "file" \in DOMAIN file THEN file.file ELSE "json"

\* load_sync_state: the state the process works with, or an exception.
\* json.load raises JSONDecodeError on text that is no JSON, which is caught;
\* reading bytes that are no text raises UnicodeDecodeError, which is not;
\* any JSON value is returned as it is.
load_sync_state(file) ==
  IF FileKind(file) = "missing" THEN [state |-> [mapping |-> <<>>, last_sync |-> 0], raised |-> FALSE]
  ELSE IF FileKind(file) = "not text" THEN [state |-> file, raised |-> TRUE]
  ELSE IF FileKind(file) = "not json" THEN [state |-> [mapping |-> <<>>, last_sync |-> 0], raised |-> FALSE]
  ELSE [state |-> file, raised |-> FALSE]

\* ------------------------------------------------------------ push pass
\* One remote call of a pass, as the remote service saw it
Call(kind, note, list_id, tid, ok) ==
  [kind |-> kind, note |-> note.id, list_id |-> list_id, task_id |-> tid,
   title |-> TaskBody(note).title, status |-> TaskBody(note).status, ok |-> ok]

\* st = [mapping, remote, nextTid, calls]; ok: the HTTP request does not fail
create_google_task(st, list_id, note, ok) ==
  IF ok
  THEN [st EXCEPT !.remote = RemoteInsert(@, list_id, TaskIds[st.nextTid], TaskBody(note), note.created),
                  !.nextTid = @ + 1,
                  !.calls = Append(@, Call("create", note, list_id, TaskIds[st.nextTid], TRUE)),
                  !.result = TaskIds[st.nextTid]]
  ELSE [st EXCEPT !.calls = Append(@, Call("create", note, list_id, "None", FALSE)),
                  !.result = "None"]

update_google_task(st, list_id, google_id, note, ok) ==
  IF ok /\ HasTask(st.remote, list_id, google_id)
  THEN [st EXCEPT !.remote = RemoteUpdate(@, list_id, google_id, TaskBody(note)),
                  !.calls = Append(@, Call("update", note, list_id, google_id, TRUE))]
  ELSE [st EXCEPT !.calls = Append(@, Call("update", note, list_id, google_id, FALSE))]

\* mutant: a created task is not recorded in the mapping
PushNote_NoRecord(st, default_list, note, ok) ==
  LET local_id == Str(note.id) IN
  IF local_id \in DOMAIN st.mapping
  THEN LET mapping == st.mapping[local_id] IN
       IF ~Subscriptable(mapping) THEN [st EXCEPT !.raised = TRUE]
       ELSE update_google_task(st, mapping.list_id, mapping.task_id, note, ok)
  ELSE create_google_task(st, default_list.id, note, ok)

\* mutant: the update is addressed to the default container
PushNote_DefaultList(st, default_list, note, ok) ==
  LET local_id == Str(note.id) IN
  IF local_id \in DOMAIN st.mapping
  THEN LET mapping == st.mapping[local_id] IN
       IF ~Subscriptable(mapping) THEN [st EXCEPT !.raised = TRUE]
       ELSE update_google_task(st, default_list.id, mapping.task_id, note, ok)
  ELSE LET c == create_google_task(st, default_list.id, note, ok) IN
       IF c.result # "None"
       THEN [c EXCEPT !.mapping =
               (local_id :> [task_id |-> c.result, list_id |-> default_list.id,
                             list_name |-> default_list.title]) @@ @]
       ELSE c

\* mutant: an entry is recorded whether or not the create succeeded
PushNote_RecordFailed(st, default_list, note, ok) ==
  LET local_id == Str(note.id) IN
  IF local_id \in DOMAIN st.mapping
  THEN LET mapping == st.mapping[local_id] IN
       IF ~Subscriptable(mapping) THEN [st EXCEPT !.raised = TRUE]
       ELSE update_google_task(st, mapping.list_id, mapping.task_id, note, ok)
  ELSE LET c == create_google_task(st, default_list.id, note, ok) IN
       [c EXCEPT !.mapping =
          (local_id :> [task_id |-> c.result, list_id |-> default_list.id,
                        list_name |-> default_list.title]) @@ @]

\* the body of the loop over local_notes; an exception that is not an
\* HttpError is not caught and ends the process (raised)
PushNote(st, default_list, note, ok) ==
  LET local_id == Str(note.id) IN
  IF local_id \in DOMAIN st.mapping
  THEN LET mapping == st.mapping[local_id] IN
       IF ~Subscriptable(mapping) THEN [st EXCEPT !.raised = TRUE]
       ELSE update_google_task(st, mapping.list_id, mapping.task_id, note, ok)
  ELSE LET c == create_google_task(st, default_list.id, note, ok) IN
       IF c.result # "None"
       THEN [c EXCEPT !.mapping =
               (local_id :> [task_id |-> c.result, list_id |-> default_list.id,
                             list_name |-> default_list.title]) @@ @]
       ELSE c

\* mutant: the first failed call ends the loop
RECURSIVE PushNotes_StopOnFailure(_, _, _, _, _, _)
PushNotes_StopOnFailure(st, default_list, local_notes, i, limit, failNotes) ==
  IF i > limit \/ st.raised THEN st
  ELSE LET next == PushNote(st, default_list, local_notes[i], i \notin failNotes) IN
       IF next.raised THEN next
       ELSE IF next.calls[Len(next.calls)].ok
       THEN PushNotes_StopOnFailure(next, default_list, local_notes, i + 1, limit, failNotes)
       ELSE next

RECURSIVE PushNotes(_, _, _, _, _, _)
PushNotes(st, default_list, local_notes, i, limit, failNotes) ==
  IF i > limit \/ st.raised THEN st
  ELSE PushNotes(PushNote(st, default_list, local_notes[i], i \notin failNotes),
                 default_list, local_notes, i + 1, limit, failNotes)

\* self.sync_state['mapping'] evaluates (a loaded JSON value without the key
\* raises KeyError)
HasMapping(sync_state) == "mapping" \in DOMAIN sync_state

\* mutant: last_sync is set and the state saved only when every call succeeded
sync_to_google_SaveOnSuccess(notes, sync_state, rem, tid, now, listsOk, failNotes, kill) ==
  LET task_lists == get_all_task_lists(listsOk)
      Idle(ss, saved, raised) ==
        [sync_state |-> ss, saved |-> saved, killed |-> FALSE, raised |-> raised,
         remote |-> rem, nextTid |-> tid, calls |-> <<>>]
  IN
  IF task_lists = <<>> THEN Idle(sync_state, FALSE, FALSE)
  ELSE IF ~HasMapping(sync_state)
  THEN IF notes = <<>> THEN Idle([sync_state EXCEPT !.last_sync = now], TRUE, FALSE)
       ELSE Idle(sync_state, FALSE, TRUE)
  ELSE LET killed == kill <= Len(notes)
           st0 == [mapping |-> sync_state.mapping, remote |-> rem, nextTid |-> tid,
                   calls |-> <<>>, result |-> "None", raised |-> FALSE]
           st == PushNotes(st0, task_lists[1], notes, 1,
                           IF killed THEN kill ELSE Len(notes), failNotes)
           allOk == \A i \in DOMAIN st.calls : st.calls[i].ok
           done == ~killed /\ ~st.raised /\ allOk
       IN [sync_state |-> [mapping |-> st.mapping,
                           last_sync |-> IF done THEN now ELSE sync_state.last_sync],
           saved |-> done, killed |-> killed /\ ~st.raised, raised |-> st.raised,
           remote |-> st.remote, nextTid |-> st.nextTid, calls |-> st.calls]

\* mutant: new tasks are created in the last container of the enumeration
sync_to_google_LastList(notes, sync_state, rem, tid, now, listsOk, failNotes, kill) ==
  LET task_lists == get_all_task_lists(listsOk)
      Idle(ss, saved, raised) ==
        [sync_state |-> ss, saved |-> saved, killed |-> FALSE, raised |-> raised,
         remote |-> rem, nextTid |-> tid, calls |-> <<>>]
  IN
  IF task_lists = <<>> THEN Idle(sync_state, FALSE, FALSE)
  ELSE IF ~HasMapping(sync_state)
  THEN IF notes = <<>> THEN Idle([sync_state EXCEPT !.last_sync = now], TRUE, FALSE)
       ELSE Idle(sync_state, FALSE, TRUE)
  ELSE LET killed == kill <= Len(notes)
           st0 == [mapping |-> sync_state.mapping, remote |-> rem, nextTid |-> tid,
                   calls |-> <<>>, result |-> "None", raised |-> FALSE]
           st == PushNotes(st0, task_lists[Len(task_lists)], notes, 1,
                           IF killed THEN kill ELSE Len(notes), failNotes)
           done == ~killed /\ ~st.raised
       IN [sync_state |-> [mapping |-> st.mapping,
                           last_sync |-> IF done THEN now ELSE sync_state.last_sync],
           saved |-> done, killed |-> killed /\ ~st.raised, raised |-> st.raised,
           remote |-> st.remote, nextTid |-> st.nextTid, calls |-> st.calls]

\* sync_to_google in a process that loaded notes and sync_state.
\*   listsOk   : the container enumeration does not fail
\*   failNotes : positions in the Store whose remote call fails
\*   kill      : the process is killed after this many notes; Len(notes)+1: never
\* The result: the sync_state in memory, whether it was saved, whether the
\* pass ended in an uncaught exception (raised), the remote.
sync_to_google(notes, sync_state, rem, tid, now, listsOk, failNotes, kill) ==
  LET task_lists == get_all_task_lists(listsOk)
      Idle(ss, saved, raised) ==
        [sync_state |-> ss, saved |-> saved, killed |-> FALSE, raised |-> raised,
         remote |-> rem, nextTid |-> tid, calls |-> <<>>]
  IN
  IF task_lists = <<>> THEN Idle(sync_state, FALSE, FALSE)
  ELSE IF ~HasMapping(sync_state)
  THEN \* with no note the loop body never runs and last_sync is set and saved
       IF notes = <<>> THEN Idle([sync_state EXCEPT !.last_sync = now], TRUE, FALSE)
       ELSE Idle(sync_state, FALSE, TRUE)
  ELSE LET killed == kill <= Len(notes)
           st0 == [mapping |-> sync_state.mapping, remote |-> rem, nextTid |-> tid,
                   calls |-> <<>>, result |-> "None", raised |-> FALSE]
           st == PushNotes(st0, task_lists[1], notes, 1,
                           IF killed THEN kill ELSE Len(notes), failNotes)
           done == ~killed /\ ~st.raised
       IN [sync_state |-> [mapping |-> st.mapping,
                           last_sync |-> IF done THEN now ELSE sync_state.last_sync],
           saved |-> done, killed |-> killed /\ ~st.raised, raised |-> st.raised,
           remote |-> st.remote, nextTid |-> st.nextTid, calls |-> st.calls]

\* ------------------------------------------------------------ pull pass
\* mutant: the reverse index is left empty
reverse_mapping_Empty(mapping) == [g \in {} |-> "1"]

\* the task id the reverse index reads from an entry: mapping['task_id'] of
\* a dict, the value itself in the old format
EntryTaskId(entry) == IF IsDict(entry) THEN entry.task_id ELSE entry.bare

\* mutant: entries in the old format are left out of the reverse index
reverse_mapping_SkipLegacy(mapping) ==
  LET keys == {k \in DOMAIN mapping : IsDict(mapping[k])}
      tids == {mapping[k].task_id : k \in keys} IN
  [g \in tids |->
     Str(SeqMax({ToInt(k) : k \in {x \in keys : mapping[x].task_id = g}}))]

\* reverse_mapping (google_id -> local_id), built once at the start of a pull.
\* Were two keys to name one task, the key written last would win; the keys
\* are compared as the integers they spell.
reverse_mapping(mapping) ==
  LET tids == {EntryTaskId(mapping[k]) : k \in DOMAIN mapping} IN
  [g \in tids |->
     Str(SeqMax({ToInt(k) : k \in {x \in DOMAIN mapping : EntryTaskId(mapping[x]) = g}}))]

\* mutant: the status of the task is not copied to the new note
create_local_note_Undone(st, gtask) ==
  LET notes == add_note(st.notes, gtask.title, st.nextCreated) IN
  [st EXCEPT !.notes = notes, !.nextCreated = @ + 1, !.result = notes[Len(notes)].id]

\* st = [notes, mapping, nextCreated, recon, budget]
create_local_note(st, gtask) ==
  LET added == add_note(st.notes, gtask.title, st.nextCreated)
      n     == Len(added)
      notes == IF gtask.status = "completed"
               THEN [added EXCEPT ![n] =
                       [@ EXCEPT !.done = TRUE,
                                 !.completed = IF gtask.completed # "None"
                                               THEN gtask.completed ELSE "now"]]
               ELSE added
  IN [st EXCEPT !.notes = notes, !.nextCreated = @ + 1, !.result = notes[n].id]

\* mutant: done is derived from the wrong status
update_local_note_Flip(st, local_id, gtask) ==
  LET i == FirstWithId(st.notes, local_id) IN
  IF i = 0 THEN st
  ELSE [st EXCEPT !.notes[i] =
          [@ EXCEPT !.text = gtask.title,
                    !.done = (gtask.status = "needsAction"),
                    !.completed = IF gtask.status = "needsAction" THEN "now" ELSE "None"]]

\* mutant: the done value of the note is left as it is
update_local_note_KeepDone(st, local_id, gtask) ==
  LET i == FirstWithId(st.notes, local_id) IN
  IF i = 0 THEN st
  ELSE [st EXCEPT !.notes[i] = [@ EXCEPT !.text = gtask.title]]

\* mutant: the completed timestamp of the note is left as it is
update_local_note_KeepCompleted(st, local_id, gtask) ==
  LET i == FirstWithId(st.notes, local_id) IN
  IF i = 0 THEN st
  ELSE [st EXCEPT !.notes[i] =
          [@ EXCEPT !.text = gtask.title, !.done = (gtask.status = "completed")]]

update_local_note(st, local_id, gtask) ==
  LET i == FirstWithId(st.notes, local_id) IN
  IF i = 0 THEN st
  ELSE [st EXCEPT !.notes[i] =
          [@ EXCEPT !.text = gtask.title,
                    !.done = (gtask.status = "completed"),
                    !.completed = IF gtask.status = "completed"
                                  THEN (IF gtask.completed # "None"
                                        THEN gtask.completed ELSE "now")
                                  ELSE "None"]]

\* one reconciliation step of a pull, as logged: the task, the local id it
\* was matched with or given, and for a create the note create_local_note
\* returned
NoNote == [id |-> 0, text |-> "", done |-> FALSE, created |-> 0, completed |-> "None"]

Recon(kind, gtask, list_id, local, note) ==
  [kind |-> kind, task |-> gtask.id, list_id |-> list_id, local |-> local, note |-> note]

\* mutant: the entry of a new note records the first container
PullTask_FirstList(st, reverse, task_list, gtask) ==
  LET google_id == gtask.id IN
  IF google_id \in DOMAIN reverse
  THEN LET local_id == ToInt(reverse[google_id]) IN
       [update_local_note(st, local_id, gtask) EXCEPT
          !.recon = Append(@, Recon("update", gtask, task_list.id, local_id, NoNote)),
          !.budget = @ - 1]
  ELSE LET c == create_local_note(st, gtask) IN
       [c EXCEPT !.mapping =
           (Str(c.result) :> [task_id |-> google_id, list_id |-> Lists[1].id,
                              list_name |-> Lists[1].title]) @@ @,
                 !.recon = Append(@, Recon("create", gtask, task_list.id, c.result,
                                           c.notes[Len(c.notes)])),
                 !.budget = @ - 1]

\* mutant: the entry of a new note replaces the mapping
PullTask_ForgetEntries(st, reverse, task_list, gtask) ==
  LET google_id == gtask.id IN
  IF google_id \in DOMAIN reverse
  THEN LET local_id == ToInt(reverse[google_id]) IN
       [update_local_note(st, local_id, gtask) EXCEPT
          !.recon = Append(@, Recon("update", gtask, task_list.id, local_id, NoNote)),
          !.budget = @ - 1]
  ELSE LET c == create_local_note(st, gtask) IN
       [c EXCEPT !.mapping =
           (Str(c.result) :> [task_id |-> google_id, list_id |-> task_list.id,
                              list_name |-> task_list.title]),
                 !.recon = Append(@, Recon("create", gtask, task_list.id, c.result,
                                           c.notes[Len(c.notes)])),
                 !.budget = @ - 1]

\* the body of the loop over google_tasks
PullTask(st, reverse, task_list, gtask) ==
  LET google_id == gtask.id IN
  IF google_id \in DOMAIN reverse
  THEN LET local_id == ToInt(reverse[google_id]) IN
       [update_local_note(st, local_id, gtask) EXCEPT
          !.recon = Append(@, Recon("update", gtask, task_list.id, local_id, NoNote)),
          !.budget = @ - 1]
  ELSE LET c == create_local_note(st, gtask) IN
       [c EXCEPT !.mapping =
           (Str(c.result) :> [task_id |-> google_id, list_id |-> task_list.id,
                              list_name |-> task_list.title]) @@ @,
                 !.recon = Append(@, Recon("create", gtask, task_list.id, c.result,
                                           c.notes[Len(c.notes)])),
                 !.budget = @ - 1]

RECURSIVE PullTasks(_, _, _, _, _)
PullTasks(st, reverse, task_list, google_tasks, j) ==
  IF j > Len(google_tasks) \/ st.budget = 0 THEN st
  ELSE PullTasks(PullTask(st, reverse, task_list, google_tasks[j]),
                 reverse, task_list, google_tasks, j + 1)

\* mutant: the try/except is around the whole loop, a failing list ends it
RECURSIVE PullLists_AbortOnFailure(_, _, _, _, _, _)
PullLists_AbortOnFailure(st, reverse, task_lists, rem, c, failLists) ==
  IF c > Len(task_lists) \/ st.budget = 0 THEN st
  ELSE LET task_list == task_lists[c] IN
       IF task_list.id \in failLists THEN st
       ELSE PullLists_AbortOnFailure(PullTasks(st, reverse, task_list, rem[task_list.id], 1),
                                     reverse, task_lists, rem, c + 1, failLists)

\* the loop over task_lists, with its try/except around one list
RECURSIVE PullLists(_, _, _, _, _, _)
PullLists(st, reverse, task_lists, rem, c, failLists) ==
  IF c > Len(task_lists) \/ st.budget = 0 THEN st
  ELSE LET task_list == task_lists[c]
           next == IF task_list.id \in failLists
                   THEN st
                   ELSE PullTasks(st, reverse, task_list, rem[task_list.id], 1)
       IN PullLists(next, reverse, task_lists, rem, c + 1, failLists)

\* the tasks a pull visits when it is not killed
Visited(rem, failLists) ==
  LET RECURSIVE V(_)
      V(c) == IF c > Len(Lists) THEN <<>>
              ELSE (IF Lists[c].id \in failLists THEN <<>> ELSE rem[Lists[c].id]) \o V(c + 1)
  IN V(1)

\* sync_from_google in a process that loaded notes and sync_state.
\*   listsOk   : the container enumeration does not fail
\*   failLists : ids of the containers whose tasks().list fails
\*   kill      : the process is killed after this many tasks;
\*               Len(Visited)+1: never
\* notes is written to notes.json at every step; sync_state only at the end.
\* A loaded value without 'mapping' raises KeyError where the reverse index
\* is built (raised).
sync_from_google(notes, sync_state, rem, created, now, listsOk, failLists, kill) ==
  LET task_lists == get_all_task_lists(listsOk) IN
  IF task_lists = <<>> \/ ~HasMapping(sync_state)
  THEN [notes |-> notes, sync_state |-> sync_state, saved |-> FALSE, killed |-> FALSE,
        raised |-> task_lists # <<>>, nextCreated |-> created, recon |-> <<>>]
  ELSE LET killed == kill <= Len(Visited(rem, failLists))
           st0 == [notes |-> notes, mapping |-> sync_state.mapping,
                   nextCreated |-> created, recon |-> <<>>, result |-> 0,
                   budget |-> IF killed THEN kill ELSE Len(Visited(rem, failLists))]
           st == IF st0.budget = 0 THEN st0
                 ELSE PullLists(st0, reverse_mapping(sync_state.mapping),
                                task_lists, rem, 1, failLists)
       IN [notes |-> st.notes,
           sync_state |-> [mapping |-> st.mapping,
                           last_sync |-> IF killed THEN sync_state.last_sync ELSE now],
           saved |-> ~killed, killed |-> killed, raised |-> FALSE,
           nextCreated |-> st.nextCreated, recon |-> st.recon]

\* ------------------------------------------------------------ NotesTUI
\* The fields of a NotesTUI and the position of its process:
\*   phase "closed"  : no session, or the session has ended
\*         "pulling" : in __init__, the --pull child is running
\*         "running" : in the loop of run
\*         "pushing" : in the finally of run, the push thread is running
\* notes is nm.notes, the list the session works on.  History fields:
\* outstanding (children of the session now running), pushes (threads the
\* session started for push_to_google), changed (add_note, toggle_note or
\* delete_note was called after the startup pull), raised (the exception
\* that ended the loop), raced (the loop ran while a child was running).
\* scroll_offset and the drawing are left out: they read, and change nothing
\* else.
NoSession ==
  [phase |-> "closed", has_internet |-> FALSE, notes_modified |-> FALSE,
   current_tab |-> 0, selected_idx |-> 0, input_mode |-> FALSE, input_buffer |-> <<>>,
   notes |-> <<>>, outstanding |-> 0, pushes |-> 0, changed |-> FALSE,
   raised |-> "none", raced |-> FALSE]

\* the keys the user presses: a key name, or the character itself
Printable  == {"a", " ", "q", "n", "d"}
NormalKeys == {"q", "up", "down", "tab", " ", "n", "d", "enter", "interrupt"}
EditKeys   == NormalKeys \ {"up", "down", "tab"}
InputKeys  == {"a", " ", "esc", "enter", "backspace", "interrupt"}

\* what the user types into a new note: nothing, a letter or a blank
Buffers == {<<>>, <<"a">>, <<" ">>}

\* input_buffer.strip(), as the string add_note is given
RECURSIVE Joined(_)
Joined(buf) == IF buf = <<>> THEN "" ELSE buf[1] \o Joined(Tail(buf))

RECURSIVE LStrip(_)
LStrip(buf) == IF buf # <<>> /\ buf[1] = " " THEN LStrip(Tail(buf)) ELSE buf

RECURSIVE RStrip(_)
RStrip(buf) ==
  IF buf # <<>> /\ buf[Len(buf)] = " " THEN RStrip(SubSeq(buf, 1, Len(buf) - 1)) ELSE buf

Strip(buf) == Joined(RStrip(LStrip(buf)))

get_current_notes(t) ==
  IF t.current_tab = 0 THEN SelectSeq(t.notes, LAMBDA n : ~n.done)
  ELSE IF t.current_tab = 1 THEN SelectSeq(t.notes, LAMBDA n : n.done)
  ELSE t.notes

Max0(n) == IF n > 0 THEN n ELSE 0

\* mutant: a deletion is not counted as a modification
handle_input_DeleteUncounted(t, key, created) ==
  LET notes == get_current_notes(t)
      Out(next, running, saved) ==
        [tui |-> [next EXCEPT !.raced = @ \/ t.outstanding > 0],
         running |-> running, saved |-> saved, added |-> FALSE]
  IN
  IF key = "interrupt" THEN Out([t EXCEPT !.raised = "KeyboardInterrupt"], FALSE, FALSE)
  ELSE IF t.input_mode
  THEN IF key = "esc" THEN Out([t EXCEPT !.input_mode = FALSE, !.input_buffer = <<>>], TRUE, FALSE)
       ELSE IF key = "enter"
       THEN IF Strip(t.input_buffer) # ""
            THEN [Out([t EXCEPT !.notes = add_note(@, Strip(t.input_buffer), created),
                                !.notes_modified = TRUE, !.changed = TRUE,
                                !.input_buffer = <<>>, !.input_mode = FALSE,
                                !.selected_idx = 0], TRUE, TRUE)
                  EXCEPT !.added = TRUE]
            ELSE Out([t EXCEPT !.input_mode = FALSE, !.selected_idx = 0], TRUE, FALSE)
       ELSE IF key = "backspace"
       THEN Out([t EXCEPT !.input_buffer = SubSeq(@, 1, Len(@) - 1)], TRUE, FALSE)
       ELSE IF key \in Printable
       THEN Out([t EXCEPT !.input_buffer = Append(@, key)], TRUE, FALSE)
       ELSE Out(t, TRUE, FALSE)
  ELSE IF key = "q" THEN Out(t, FALSE, FALSE)
       ELSE IF key = "up"
       THEN Out(IF notes # <<>> /\ t.selected_idx > 0
                THEN [t EXCEPT !.selected_idx = @ - 1] ELSE t, TRUE, FALSE)
       ELSE IF key = "down"
       THEN Out(IF notes # <<>> /\ t.selected_idx < Len(notes) - 1
                THEN [t EXCEPT !.selected_idx = @ + 1] ELSE t, TRUE, FALSE)
       ELSE IF key = "tab"
       THEN Out([t EXCEPT !.current_tab = (@ + 1) % 3, !.selected_idx = 0], TRUE, FALSE)
       ELSE IF key = " "
       THEN IF notes = <<>> THEN Out(t, TRUE, FALSE)
            ELSE IF t.selected_idx >= Len(notes)
            THEN Out([t EXCEPT !.raised = "IndexError"], FALSE, FALSE)
            ELSE Out([t EXCEPT !.notes = toggle_note(@, notes[t.selected_idx + 1].id),
                               !.notes_modified = TRUE, !.changed = TRUE], TRUE, TRUE)
       ELSE IF key = "n"
       THEN Out([t EXCEPT !.input_mode = TRUE, !.input_buffer = <<>>], TRUE, FALSE)
       ELSE IF key = "d"
       THEN IF notes = <<>> THEN Out(t, TRUE, FALSE)
            ELSE IF t.selected_idx >= Len(notes)
            THEN Out([t EXCEPT !.raised = "IndexError"], FALSE, FALSE)
            ELSE LET del == [t EXCEPT !.notes = delete_note(@, notes[t.selected_idx + 1].id),
                                      !.changed = TRUE]
                     left == Len(get_current_notes(del))
                 IN Out(IF del.selected_idx >= left
                        THEN [del EXCEPT !.selected_idx = Max0(left - 1)] ELSE del, TRUE, TRUE)
       ELSE Out(t, TRUE, FALSE)

\* handle_input for one key: the fields after it, whether the loop goes on
\* (running), whether save_notes was called and whether a note was added.
\* notes[selected_idx] past the end of the list raises IndexError; Ctrl-C
\* raises KeyboardInterrupt in getch.  Both end the loop through finally.
handle_input(t, key, created) ==
  LET notes == get_current_notes(t)
      Out(next, running, saved) ==
        [tui |-> [next EXCEPT !.raced = @ \/ t.outstanding > 0],
         running |-> running, saved |-> saved, added |-> FALSE]
  IN
  IF key = "interrupt" THEN Out([t EXCEPT !.raised = "KeyboardInterrupt"], FALSE, FALSE)
  ELSE IF t.input_mode
  THEN IF key = "esc" THEN Out([t EXCEPT !.input_mode = FALSE, !.input_buffer = <<>>], TRUE, FALSE)
       ELSE IF key = "enter"
       THEN IF Strip(t.input_buffer) # ""
            THEN [Out([t EXCEPT !.notes = add_note(@, Strip(t.input_buffer), created),
                                !.notes_modified = TRUE, !.changed = TRUE,
                                !.input_buffer = <<>>, !.input_mode = FALSE,
                                !.selected_idx = 0], TRUE, TRUE)
                  EXCEPT !.added = TRUE]
            ELSE Out([t EXCEPT !.input_mode = FALSE, !.selected_idx = 0], TRUE, FALSE)
       ELSE IF key = "backspace"
       THEN Out([t EXCEPT !.input_buffer = SubSeq(@, 1, Len(@) - 1)], TRUE, FALSE)
       ELSE IF key \in Printable
       THEN Out([t EXCEPT !.input_buffer = Append(@, key)], TRUE, FALSE)
       ELSE Out(t, TRUE, FALSE)
  ELSE IF key = "q" THEN Out(t, FALSE, FALSE)
       ELSE IF key = "up"
       THEN Out(IF notes # <<>> /\ t.selected_idx > 0
                THEN [t EXCEPT !.selected_idx = @ - 1] ELSE t, TRUE, FALSE)
       ELSE IF key = "down"
       THEN Out(IF notes # <<>> /\ t.selected_idx < Len(notes) - 1
                THEN [t EXCEPT !.selected_idx = @ + 1] ELSE t, TRUE, FALSE)
       ELSE IF key = "tab"
       THEN Out([t EXCEPT !.current_tab = (@ + 1) % 3, !.selected_idx = 0], TRUE, FALSE)
       ELSE IF key = " "
       THEN IF notes = <<>> THEN Out(t, TRUE, FALSE)
            ELSE IF t.selected_idx >= Len(notes)
            THEN Out([t EXCEPT !.raised = "IndexError"], FALSE, FALSE)
            ELSE Out([t EXCEPT !.notes = toggle_note(@, notes[t.selected_idx + 1].id),
                               !.notes_modified = TRUE, !.changed = TRUE], TRUE, TRUE)
       ELSE IF key = "n"
       THEN Out([t EXCEPT !.input_mode = TRUE, !.input_buffer = <<>>], TRUE, FALSE)
       ELSE IF key = "d"
       THEN IF notes = <<>> THEN Out(t, TRUE, FALSE)
            ELSE IF t.selected_idx >= Len(notes)
            THEN Out([t EXCEPT !.raised = "IndexError"], FALSE, FALSE)
            ELSE LET del == [t EXCEPT !.notes = delete_note(@, notes[t.selected_idx + 1].id),
                                      !.notes_modified = TRUE, !.changed = TRUE]
                     left == Len(get_current_notes(del))
                 IN Out(IF del.selected_idx >= left
                        THEN [del EXCEPT !.selected_idx = Max0(left - 1)] ELSE del, TRUE, TRUE)
       ELSE Out(t, TRUE, FALSE)

\* mutant: the push thread is started and the loop is not left
finally_NoJoin(t) ==
  IF t.has_internet /\ t.notes_modified
  THEN [t EXCEPT !.phase = "running", !.outstanding = @ + 1, !.pushes = @ + 1]
  ELSE [t EXCEPT !.phase = "closed"]

\* the finally of run: with internet and a modification the push thread is
\* started and joined; else the session ends (without internet after the
\* closing warning was dismissed)
finally(t) ==
  IF t.has_internet /\ t.notes_modified
  THEN [t EXCEPT !.phase = "pushing", !.outstanding = @ + 1, !.pushes = @ + 1]
  ELSE [t EXCEPT !.phase = "closed"]

\* ------------------------------------------------------------ saving
\* save_notes and save_sync_state: open(path, 'w') empties the file, the
\* JSON text is written into it, and close flushes what is left.  Between
\* the open and the close the file holds no text or the start of the text.
NotWriting == [path |-> "none"]

\* the bytes a reader gets: the whole content, or what a save has written
Bytes(path, content) ==
  IF writing.path = path THEN [torn |-> writing.flushed] ELSE [whole |-> content]

IsWhole(bytes) == "whole" \in DOMAIN bytes

\* load_notes: json.load of a file that is empty or ends in the middle of
\* the text raises JSONDecodeError, which is caught, and the list is empty
load_notes(bytes) == IF IsWhole(bytes) THEN bytes.whole ELSE <<>>

\* ------------------------------------------------------------ history
EmptySync == [mapping |-> <<>>, last_sync |-> 0]
EmptyRemote == [l \in ListIds |-> <<>>]
NoPre == [notes |-> <<>>, sync |-> EmptySync, remote |-> EmptyRemote]

Last0 ==
  [op |-> "init", arg |-> 0,
   prev |-> [op |-> "init", arg |-> 0, clean |-> FALSE, pushed |-> {}],
   pushListsOk |-> FALSE, pullListsOk |-> FALSE, killed |-> FALSE,
   failLists |-> {}, calls |-> <<>>, recon |-> <<>>,
   clean |-> FALSE, pushed |-> {}, pre |-> NoPre, mem |-> EmptySync,
   raised |-> FALSE, exit |-> 0, started |-> FALSE, authOk |-> FALSE,
   listsOk |-> FALSE, enumerations |-> 0,
   seen |-> [whole |-> <<>>], before |-> <<>>, after |-> <<>>]

Prev == [op |-> last.op, arg |-> last.arg, clean |-> last.clean, pushed |-> last.pushed]

LocalOp(op, arg) == [Last0 EXCEPT !.op = op, !.arg = arg, !.prev = Prev]

Snapshot == [notes |-> notes_file, sync |-> sync_file, remote |-> remote]

NoteIds(notes) == {notes[i].id : i \in DOMAIN notes}

\* ------------------------------------------------------------ actions
Init ==
  /\ notes_file = <<>>
  /\ sync_file = EmptySync
  /\ remote = EmptyRemote
  /\ nextTid = 1
  /\ nextCreated = 1
  /\ clock = 0
  /\ last = Last0
  /\ tui = NoSession
  /\ writing = NotWriting

\* the user adds, toggles or deletes a note (TUI or any NotesManager client)
AddNote ==
  \E text \in Texts :
    /\ clock < MaxClock
    /\ nextCreated <= MaxCreated
    /\ clock' = clock + 1
    /\ notes_file' = add_note(notes_file, text, nextCreated)
    /\ nextCreated' = nextCreated + 1
    /\ last' = LocalOp("add", generate_id(notes_file))
    /\ UNCHANGED <<sync_file, remote, nextTid, tui, writing>>

ToggleNote ==
  \E id \in NoteIds(notes_file) :
    /\ clock < MaxClock
    /\ clock' = clock + 1
    /\ notes_file' = toggle_note(notes_file, id)
    /\ last' = LocalOp("toggle", id)
    /\ UNCHANGED <<sync_file, remote, nextTid, nextCreated, tui, writing>>

DeleteNote ==
  \E id \in NoteIds(notes_file) :
    /\ clock < MaxClock
    /\ clock' = clock + 1
    /\ notes_file' = delete_note(notes_file, id)
    /\ last' = LocalOp("delete", id)
    /\ UNCHANGED <<sync_file, remote, nextTid, nextCreated, tui, writing>>

\* somebody adds a task on the remote side, or edits the title or the status of one
RemoteAdd ==
  \E l \in ListIds, title \in Texts :
    /\ clock < MaxClock
    /\ nextTid <= MaxTid
    /\ clock' = clock + 1
    /\ remote' = RemoteInsert(remote, l, TaskIds[nextTid],
                              [title |-> title, status |-> "needsAction"], 0)
    /\ nextTid' = nextTid + 1
    /\ last' = LocalOp("radd", nextTid)
    /\ UNCHANGED <<notes_file, sync_file, nextCreated, tui, writing>>

RemoteEdit ==
  \E l \in ListIds :
    \E i \in DOMAIN remote[l], title \in Texts, status \in Statuses :
      /\ clock < MaxClock
      /\ (title = remote[l][i].title) # (status = remote[l][i].status)
      /\ clock' = clock + 1
      /\ remote' = RemoteUpdate(remote, l, remote[l][i].id,
                                [title |-> title, status |-> status])
      /\ last' = LocalOp("redit", i)
      /\ UNCHANGED <<notes_file, sync_file, nextTid, nextCreated, tui, writing>>

PushClean(r)  == r.saved /\ \A i \in DOMAIN r.calls : r.calls[i].ok
PushedIds(r)  == IF r.saved THEN {r.calls[i].note : i \in {j \in DOMAIN r.calls : r.calls[j].ok}}
                 ELSE {}

PushPass(listsOk, failNotes, kill) ==
  LET r == sync_to_google(notes_file, sync_file, remote, nextTid, clock + 1,
                          listsOk, failNotes, kill)
  IN /\ clock < MaxClock
     /\ r.nextTid <= MaxTid + 1
     /\ clock' = clock + 1
     /\ sync_file' = IF r.saved THEN r.sync_state ELSE sync_file
     /\ remote' = r.remote
     /\ nextTid' = r.nextTid
     /\ last' = [Last0 EXCEPT !.op = "push", !.prev = Prev, !.pushListsOk = listsOk,
                              !.killed = r.killed, !.calls = r.calls,
                              !.clean = PushClean(r), !.pushed = PushedIds(r),
                              !.pre = Snapshot, !.mem = r.sync_state,
                              !.raised = r.raised]
     /\ UNCHANGED <<notes_file, nextCreated, tui, writing>>

PullPass(listsOk, failLists, kill) ==
  LET r == sync_from_google(notes_file, sync_file, remote, nextCreated, clock + 1,
                            listsOk, failLists, kill)
  IN /\ clock < MaxClock
     /\ r.nextCreated <= MaxCreated + 1
     /\ clock' = clock + 1
     /\ notes_file' = r.notes
     /\ nextCreated' = r.nextCreated
     /\ sync_file' = IF r.saved THEN r.sync_state ELSE sync_file
     /\ last' = [Last0 EXCEPT !.op = "pull", !.prev = Prev, !.pullListsOk = listsOk,
                              !.killed = r.killed, !.failLists = failLists,
                              !.recon = r.recon,
                              !.clean = r.saved /\ failLists = {},
                              !.pre = Snapshot, !.mem = r.sync_state,
                              !.raised = r.raised]
     /\ UNCHANGED <<remote, nextTid, tui, writing>>

\* google_tasks_sync.py --push, run to its end
Push ==
  \E listsOk \in BOOLEAN :
    \E failNotes \in (IF listsOk THEN SUBSET DOMAIN notes_file ELSE {{}}) :
      PushPass(listsOk, failNotes, Len(notes_file) + 1)

\* google_tasks_sync.py --pull, run to its end
Pull ==
  \E listsOk \in BOOLEAN :
    \E failLists \in (IF listsOk THEN SUBSET ListIds ELSE {{}}) :
      PullPass(listsOk, failLists, Len(Visited(remote, failLists)) + 1)

\* a push killed by the caller's subprocess timeout after k notes
KillPush ==
  \E k \in DOMAIN notes_file : PushPass(TRUE, {}, k)

\* a pull killed by the caller's subprocess timeout after k tasks
KillPull ==
  \E k \in DOMAIN Visited(remote, {}) : PullPass(TRUE, {}, k)

\* google_tasks_sync.py --sync: bidirectional_sync, push then pull in one process
Sync ==
  \E pushOk \in BOOLEAN, pullOk \in BOOLEAN :
    \E failNotes \in (IF pushOk THEN SUBSET DOMAIN notes_file ELSE {{}}),
       failLists \in (IF pullOk THEN SUBSET ListIds ELSE {{}}) :
      LET p == sync_to_google(notes_file, sync_file, remote, nextTid, clock + 1,
                              pushOk, failNotes, Len(notes_file) + 1)
          r == sync_from_google(notes_file, p.sync_state, p.remote, nextCreated, clock + 1,
                                pullOk, failLists, Len(Visited(p.remote, failLists)) + 1)
      IN /\ clock < MaxClock
         /\ p.nextTid <= MaxTid + 1
         /\ r.nextCreated <= MaxCreated + 1
         /\ clock' = clock + 1
         /\ notes_file' = r.notes
         /\ nextCreated' = r.nextCreated
         /\ sync_file' = IF r.saved THEN r.sync_state
                         ELSE IF p.saved THEN p.sync_state ELSE sync_file
         /\ remote' = p.remote
         /\ nextTid' = p.nextTid
         /\ last' = [Last0 EXCEPT !.op = "sync", !.prev = Prev, !.pushListsOk = pushOk,
                                  !.pullListsOk = pullOk, !.failLists = failLists,
                                  !.calls = p.calls, !.recon = r.recon,
                                  !.clean = PushClean(p) /\ r.saved /\ failLists = {},
                                  !.pushed = PushedIds(p),
                                  !.pre = Snapshot, !.mem = r.sync_state]
         /\ UNCHANGED <<tui, writing>>

\* main: google_tasks_sync.py --push or --pull as one process, from the
\* construction of GoogleTasksSync to the exit code.
\*   authOk  : authenticate finds usable credentials
\*   listsOk : the enumeration of main returns the containers
\*   passOk  : the enumeration of the pass returns them
\* The result: the files and the remote after the run, the exit code, whether
\* a pass was started, whether the process ended in an exception, and how
\* many Remote Client enumerations were made.
main(mode, notes, file, rem, tid, created, now, authOk, listsOk, passOk) ==
  LET ld == load_sync_state(file)
      Stopped(raised, enumerations) ==
        [exit |-> 1, started |-> FALSE, raised |-> raised, enumerations |-> enumerations,
         notes |-> notes, file |-> file, remote |-> rem, nextTid |-> tid,
         nextCreated |-> created, calls |-> <<>>, recon |-> <<>>, mem |-> ld.state]
  IN
  IF ld.raised THEN Stopped(TRUE, 0)
  ELSE IF ~authOk THEN Stopped(FALSE, 0)
  ELSE IF get_all_task_lists(listsOk) = <<>> THEN Stopped(FALSE, 1)
  ELSE IF mode = "pull"
  THEN LET r == sync_from_google(notes, ld.state, rem, created, now, passOk, {},
                                 Len(Visited(rem, {})) + 1)
       IN [exit |-> IF r.raised THEN 1 ELSE 0, started |-> TRUE, raised |-> r.raised,
           enumerations |-> 2,
           notes |-> r.notes, file |-> IF r.saved THEN r.sync_state ELSE file,
           remote |-> rem, nextTid |-> tid, nextCreated |-> r.nextCreated,
           calls |-> <<>>, recon |-> r.recon, mem |-> r.sync_state]
  ELSE LET r == sync_to_google(notes, ld.state, rem, tid, now, passOk, {}, Len(notes) + 1)
       IN [exit |-> IF r.raised THEN 1 ELSE 0, started |-> TRUE, raised |-> r.raised,
           enumerations |-> 2,
           notes |-> notes, file |-> IF r.saved THEN r.sync_state ELSE file,
           remote |-> r.remote, nextTid |-> r.nextTid, nextCreated |-> created,
           calls |-> r.calls, recon |-> <<>>, mem |-> r.sync_state]

\* one run of the CLI; an input the run never reads is taken as TRUE
Cli ==
  \E mode \in {"push", "pull"}, authOk \in BOOLEAN, listsOk \in BOOLEAN, passOk \in BOOLEAN :
    \E m \in {main(mode, notes_file, sync_file, remote, nextTid, nextCreated, clock + 1,
                   authOk, listsOk, passOk)} :
      /\ (~authOk => listsOk) /\ (~(authOk /\ listsOk) => passOk)
      /\ clock < MaxClock
      /\ m.nextTid <= MaxTid + 1
      /\ m.nextCreated <= MaxCreated + 1
      /\ clock' = clock + 1
      /\ notes_file' = m.notes
      /\ sync_file' = m.file
      /\ remote' = m.remote
      /\ nextTid' = m.nextTid
      /\ nextCreated' = m.nextCreated
      /\ last' = [Last0 EXCEPT !.op = mode, !.prev = Prev,
                               !.pushListsOk = (mode = "push" /\ m.started /\ passOk),
                               !.pullListsOk = (mode = "pull" /\ m.started /\ passOk),
                               !.calls = m.calls, !.recon = m.recon,
                               !.pre = Snapshot, !.mem = m.mem,
                               !.raised = m.raised, !.exit = m.exit,
                               !.started = m.started, !.authOk = authOk,
                               !.listsOk = listsOk, !.enumerations = m.enumerations]
      /\ UNCHANGED <<tui, writing>>

\* --push run again and again: the clock of the model stops at MaxClock, the
\* pushes do not
Tick == IF clock < MaxClock THEN clock + 1 ELSE clock

RetryPush(listsOk, failNotes) ==
  \E r \in {sync_to_google(notes_file, sync_file, remote, nextTid, Tick,
                           listsOk, failNotes, Len(notes_file) + 1)} :
     /\ r.nextTid <= MaxTid + 1
     /\ clock' = Tick
     /\ sync_file' = IF r.saved THEN r.sync_state ELSE sync_file
     /\ remote' = r.remote
     /\ nextTid' = r.nextTid
     /\ last' = [Last0 EXCEPT !.op = "push", !.prev = Prev, !.pushListsOk = listsOk,
                              !.killed = r.killed, !.calls = r.calls,
                              !.clean = PushClean(r), !.pushed = PushedIds(r),
                              !.pre = Snapshot, !.mem = r.sync_state,
                              !.raised = r.raised]
     /\ UNCHANGED <<notes_file, nextCreated, tui, writing>>

\* a push in which every remote call succeeds
CleanPush == RetryPush(TRUE, {})

\* a push in which the enumeration or some CreateItem or UpdateItem fails
FailedPush ==
  \/ RetryPush(FALSE, {})
  \/ \E failNotes \in (SUBSET DOMAIN notes_file) \ {{}} : RetryPush(TRUE, failNotes)

\* NotesTUI.__init__: NotesManager() loads the Store and the connection is
\* probed.  With internet the --pull child is started; without, the warning
\* is shown until ENTER (the session goes on) or Q (sys.exit).
NotesTUI_init(notes, has_internet, dismiss) ==
  LET t == [NoSession EXCEPT !.notes = notes, !.has_internet = has_internet] IN
  IF has_internet THEN [t EXCEPT !.phase = "pulling", !.outstanding = 1]
  ELSE IF dismiss = "q" THEN t
  ELSE [t EXCEPT !.phase = "running"]

\* the user opens the TUI
TuiStart(has_internet, dismiss) ==
  /\ tui.phase = "closed"
  /\ tui' = NotesTUI_init(notes_file, has_internet, dismiss)
  /\ UNCHANGED <<notes_file, sync_file, remote, nextTid, nextCreated, clock, last, writing>>

\* without internet: the warning is dismissed with ENTER or with Q
OpenOffline == \E dismiss \in {"enter", "q"} : TuiStart(FALSE, dismiss)

\* with internet: the session runs two passes, and each reads the clock
OpenOnline == clock + 2 <= MaxClock /\ TuiStart(TRUE, "enter")

\* pull_from_google and the rest of __init__: when subprocess.run returns,
\* the Store is loaded again and the selection reset; when it raises
\* TimeoutExpired (the child was killed) neither happens
pull_from_google(t, file_notes, timed_out) ==
  [(IF timed_out THEN t ELSE [t EXCEPT !.notes = file_notes, !.selected_idx = 0])
     EXCEPT !.notes_modified = FALSE, !.outstanding = @ - 1, !.phase = "running"]

\* the --pull child of the session ends, or is killed after 30 s
PullReturns ==
  \E listsOk \in BOOLEAN :
    \E kill \in (IF listsOk THEN 1..(Len(Visited(remote, {})) + 1)
                 ELSE {Len(Visited(remote, {})) + 1}) :
      \E r \in {sync_from_google(notes_file, sync_file, remote, nextCreated, clock + 1,
                                 listsOk, {}, kill)} :
        /\ tui.phase = "pulling"
        /\ r.nextCreated <= MaxCreated + 1
        /\ clock' = clock + 1
        /\ notes_file' = r.notes
        /\ nextCreated' = r.nextCreated
        /\ sync_file' = IF r.saved THEN r.sync_state ELSE sync_file
        /\ tui' = pull_from_google(tui, r.notes, r.killed)
        /\ UNCHANGED <<remote, nextTid, last, writing>>

\* one iteration of the loop of run: a key is read and handled; when the
\* loop ends, by Q or by an exception, the finally block runs
KeyPressed(keys) ==
  \E key \in keys :
    \E h \in {handle_input(tui, key, nextCreated)} :
      /\ tui.phase = "running"
      /\ h.tui.input_buffer \in Buffers
      /\ h.added => nextCreated <= MaxCreated
      /\ tui' = IF h.running THEN h.tui ELSE finally(h.tui)
      /\ notes_file' = IF h.saved THEN h.tui.notes ELSE notes_file
      /\ nextCreated' = IF h.added THEN nextCreated + 1 ELSE nextCreated
      /\ UNCHANGED <<sync_file, remote, nextTid, clock, last, writing>>

\* any key
TuiKey == KeyPressed(IF tui.input_mode THEN InputKeys ELSE NormalKeys)

\* any key but the ones that move the selection or switch the tab
TuiEdit == KeyPressed(IF tui.input_mode THEN InputKeys ELSE EditKeys)

\* push_to_google in the thread: the --push child ends, or is killed after
\* 30 s; the thread ends and join, which waits 35 s, returns
PushReturns ==
  \E listsOk \in BOOLEAN :
    \E kill \in (IF listsOk THEN 1..(Len(notes_file) + 1) ELSE {Len(notes_file) + 1}) :
      \E r \in {sync_to_google(notes_file, sync_file, remote, nextTid, clock + 1,
                               listsOk, {}, kill)} :
        /\ tui.outstanding > 0 /\ tui.phase # "pulling"
        /\ r.nextTid <= MaxTid + 1
        /\ clock' = clock + 1
        /\ sync_file' = IF r.saved THEN r.sync_state ELSE sync_file
        /\ remote' = r.remote
        /\ nextTid' = r.nextTid
        /\ tui' = [tui EXCEPT !.outstanding = @ - 1,
                              !.phase = IF @ = "pushing" THEN "closed" ELSE @]
        /\ UNCHANGED <<notes_file, nextCreated, last, writing>>

\* a NotesManager client adds, toggles or deletes a note and save_notes
\* opens notes.json
SaveNotesOpens ==
  \E new \in {add_note(notes_file, text, nextCreated) : text \in Texts}
               \cup {toggle_note(notes_file, id) : id \in NoteIds(notes_file)}
               \cup {delete_note(notes_file, id) : id \in NoteIds(notes_file)} :
    /\ writing.path = "none"
    /\ clock < MaxClock
    /\ Len(new) > Len(notes_file) => nextCreated <= MaxCreated
    /\ clock' = clock + 1
    /\ nextCreated' = IF Len(new) > Len(notes_file) THEN nextCreated + 1 ELSE nextCreated
    /\ writing' = [path |-> "notes", content |-> new, flushed |-> "nothing"]
    /\ UNCHANGED <<notes_file, sync_file, remote, nextTid, last, tui>>

\* a --push has made its calls and save_sync_state opens sync_state.json
SaveSyncOpens ==
  \E r \in {sync_to_google(notes_file, sync_file, remote, nextTid, clock + 1,
                           TRUE, {}, Len(notes_file) + 1)} :
    /\ writing.path = "none"
    /\ clock < MaxClock
    /\ r.nextTid <= MaxTid + 1
    /\ r.saved
    /\ clock' = clock + 1
    /\ remote' = r.remote
    /\ nextTid' = r.nextTid
    /\ writing' = [path |-> "sync", content |-> r.sync_state, flushed |-> "nothing"]
    /\ UNCHANGED <<notes_file, sync_file, nextCreated, last, tui>>

\* the buffer of the open file fills up and its text is written out before
\* the close: the file holds the start of the JSON text
SaveFlushes ==
  /\ writing.path # "none"
  /\ writing.flushed = "nothing"
  /\ writing' = [writing EXCEPT !.flushed = "start of the text"]
  /\ UNCHANGED <<notes_file, sync_file, remote, nextTid, nextCreated, clock, last, tui>>

\* the with block ends: the file is closed and holds the whole text
SaveCloses ==
  /\ writing.path # "none"
  /\ notes_file' = IF writing.path = "notes" THEN writing.content ELSE notes_file
  /\ sync_file' = IF writing.path = "sync" THEN writing.content ELSE sync_file
  /\ writing' = NotWriting
  /\ UNCHANGED <<remote, nextTid, nextCreated, clock, last, tui>>

\* the content a save that is under way on this file will leave in it
Arriving(path, content) == IF writing.path = path THEN writing.content ELSE content

\* waybar_notes.py main, run by the status bar: NotesManager() reads notes.json
Emit ==
  /\ last' = [Last0 EXCEPT !.op = "emit", !.prev = Prev,
                           !.seen = Bytes("notes", notes_file),
                           !.before = notes_file,
                           !.after = Arriving("notes", notes_file)]
  /\ UNCHANGED <<notes_file, sync_file, remote, nextTid, nextCreated, clock, tui, writing>>

\* another run of google_tasks_sync.py starts: GoogleTasksSync() reads
\* sync_state.json
LoadSync ==
  /\ last' = [Last0 EXCEPT !.op = "load", !.prev = Prev,
                           !.seen = Bytes("sync", sync_file),
                           !.before = sync_file,
                           !.after = Arriving("sync", sync_file)]
  /\ UNCHANGED <<notes_file, sync_file, remote, nextTid, nextCreated, clock, tui, writing>>

\* the Store operations and the single passes
Next ==
  \/ AddNote
  \/ ToggleNote
  \/ DeleteNote
  \/ RemoteAdd
  \/ RemoteEdit
  \/ Push
  \/ Pull
  \/ KillPush
  \/ KillPull

Spec == Init /\ [][Next]_vars

\* the same with the full sync, which is a push and a pull in one process
NextSync ==
  \/ AddNote
  \/ ToggleNote
  \/ DeleteNote
  \/ RemoteAdd
  \/ RemoteEdit
  \/ Push
  \/ Pull
  \/ KillPush
  \/ KillPull
  \/ Sync

SpecSync == Init /\ [][NextSync]_vars

\* A state an earlier version of the program left behind: one note, pushed
\* to the first container, and a sync_state.json that keeps its task id as a
\* bare string.
InitLegacy ==
  /\ notes_file = << [id |-> 1, text |-> "a", done |-> FALSE, created |-> 1,
                      completed |-> "None"] >>
  /\ sync_file = [mapping |-> (Str(1) :> Legacy(TaskIds[1])), last_sync |-> 0]
  /\ remote = [EmptyRemote EXCEPT ![Lists[1].id] =
                 << [id |-> TaskIds[1], title |-> "a", status |-> "needsAction",
                     completed |-> "None", origin |-> 1] >>]
  /\ nextTid = 2
  /\ nextCreated = 2
  /\ clock = 0
  /\ last = Last0
  /\ tui = NoSession
  /\ writing = NotWriting

SpecLegacy == InitLegacy /\ [][Next]_vars

\* an installation whose sync_state.json is missing or holds no SyncState
InitCli ==
  /\ notes_file = <<>>
  /\ sync_file \in {Missing, NotText, NotJson, NoMapping}
  /\ remote = EmptyRemote
  /\ nextTid = 1
  /\ nextCreated = 1
  /\ clock = 0
  /\ last = Last0
  /\ tui = NoSession
  /\ writing = NotWriting

\* the Store operations, the remote side and whole runs of the CLI
NextCli ==
  \/ AddNote
  \/ ToggleNote
  \/ DeleteNote
  \/ RemoteAdd
  \/ RemoteEdit
  \/ Cli

SpecCli == InitCli /\ [][NextCli]_vars

\* the Store operations and pushes repeated without end; nothing in the
\* program schedules a push or makes one succeed, so no fairness is stated
NextRetry ==
  \/ AddNote
  \/ ToggleNote
  \/ DeleteNote
  \/ CleanPush
  \/ FailedPush

SpecRetry == Init /\ [][NextRetry]_vars

\* The state after add_note, a push that created the task of the note in the
\* first container, and delete_note: the Store is empty and the mapping
\* still has the entry of the deleted note.  The clock starts again at 0, so
\* the last_sync that push wrote is a time before it.
InitStale ==
  /\ notes_file = <<>>
  /\ sync_file = [mapping |-> (Str(1) :> [task_id |-> TaskIds[1], list_id |-> Lists[1].id,
                                          list_name |-> Lists[1].title]),
                  last_sync |-> -1]
  /\ remote = [EmptyRemote EXCEPT ![Lists[1].id] =
                 << [id |-> TaskIds[1], title |-> "a", status |-> "needsAction",
                     completed |-> "None", origin |-> 1] >>]
  /\ nextTid = 2
  /\ nextCreated = 2
  /\ clock = 0
  /\ last = Last0
  /\ tui = NoSession
  /\ writing = NotWriting

SpecStale == InitStale /\ [][Next]_vars

\* sessions of the TUI, one after the other, with their pull and push; the
\* selection stays on the first undone note
NextTui ==
  \/ OpenOffline
  \/ OpenOnline
  \/ PullReturns
  \/ TuiEdit
  \/ PushReturns

SpecTui == Init /\ [][NextTui]_vars

\* sessions without internet, with every key
NextNav ==
  \/ OpenOffline
  \/ TuiKey

SpecNav == Init /\ [][NextNav]_vars

\* saves in two steps, open and close, and the readers of the two files
NextSave ==
  \/ SaveNotesOpens
  \/ SaveSyncOpens
  \/ SaveFlushes
  \/ SaveCloses
  \/ Emit
  \/ LoadSync

SpecSave == Init /\ [][NextSave]_vars

\* ------------------------------------------------------------ properties
Mapping == sync_file.mapping

IsPass(op) == last.op = op

Creates(calls) == {i \in DOMAIN calls : calls[i].kind = "create"}
Updates(calls) == {i \in DOMAIN calls : calls[i].kind = "update"}

\* the remote task a mapping entry names, as a set (empty when there is none)
Named(rem, entry) ==
  IF entry.list_id \in DOMAIN rem
  THEN {t \in Range(rem[entry.list_id]) : t.id = entry.task_id}
  ELSE {}

Reflects(note, t) ==
  /\ t.title = note.text
  /\ (t.status = "completed") <=> note.done

\* C1 as stated: whenever a push directly follows a push (no Store mutation
\* between), the second run issues no CreateItem and adds no MappingEntry.
C1_AnyTwoPushes ==
  (last.op = "push" /\ last.prev.op = "push")
    => /\ Creates(last.calls) = {}
       /\ DOMAIN last.mem.mapping = DOMAIN last.pre.sync.mapping

\* C1 amended: when a push directly follows a push that ran to its end and
\* in which no remote call failed, the second run issues only UpdateItem
\* calls and adds no MappingEntry.
C1_PushIdempotent ==
  (last.op = "push" /\ last.prev.op = "push" /\ last.prev.clean)
    => /\ Creates(last.calls) = {}
       /\ DOMAIN last.mem.mapping = DOMAIN last.pre.sync.mapping

C1_Witness ==
  /\ last.op = "push" /\ last.prev.op = "push" /\ last.prev.clean
  /\ ~last.killed
  /\ Len(last.calls) = 2
  /\ Updates(last.calls) = {1, 2}

\* C2: no Note of the Store has more than one remote task created for it,
\* also when a push was killed and run again from the persisted SyncState.
C2_NoDuplicateRemote ==
  \A i \in DOMAIN notes_file :
    Cardinality({t \in AllTasks(remote) : t.origin = notes_file[i].created}) <= 1

\* C3: no two distinct mapping keys name the same remote task, in the
\* persisted SyncState and in the one a pass holds in memory at its end.
Injective(mapping) ==
  \A a \in DOMAIN mapping, b \in DOMAIN mapping :
    a # b => mapping[a].task_id # mapping[b].task_id

C3_MappingUnique == Injective(sync_file.mapping) /\ Injective(last.mem.mapping)

C3_Witness ==
  /\ last.op = "pull"
  /\ Cardinality(DOMAIN sync_file.mapping) = 2
  /\ \E i \in DOMAIN last.recon : last.recon[i].kind = "update"
  /\ \E i \in DOMAIN last.recon : last.recon[i].kind = "create"

\* C4: a pull that directly follows a push leaves the text and the done
\* value of every Note that the push pushed (its remote call succeeded) as
\* they were before the push.
C4_RoundTrip ==
  (last.op = "pull" /\ last.prev.op = "push")
    => \A i \in DOMAIN last.pre.notes :
         last.pre.notes[i].id \in last.prev.pushed
           => /\ i \in DOMAIN notes_file
              /\ notes_file[i].id = last.pre.notes[i].id
              /\ notes_file[i].text = last.pre.notes[i].text
              /\ notes_file[i].done = last.pre.notes[i].done

\* a done Note created locally (its task was created for it by a push) is
\* pushed and then visited by the pull
C4_Witness ==
  /\ last.op = "pull" /\ last.prev.op = "push"
  /\ \E i \in DOMAIN notes_file :
       /\ notes_file[i].id \in last.prev.pushed
       /\ notes_file[i].done
       /\ \E j \in DOMAIN last.recon :
            /\ last.recon[j].kind = "update"
            /\ last.recon[j].local = notes_file[i].id
            /\ \E t \in AllTasks(remote) :
                 t.id = last.recon[j].task /\ t.origin = notes_file[i].created

\* C5: after a push in which no remote call failed, every Note has a
\* MappingEntry and the remote task it names has the Note's text as title
\* and is completed exactly when the Note is done.
C5_PushContract ==
  (last.op = "push" /\ last.clean)
    => \A i \in DOMAIN notes_file :
         LET k == Str(notes_file[i].id) IN
         /\ k \in DOMAIN Mapping
         /\ Named(remote, Mapping[k]) # {}
         /\ \A t \in Named(remote, Mapping[k]) : Reflects(notes_file[i], t)

C5_Witness ==
  /\ last.op = "push" /\ last.clean
  /\ Updates(last.calls) # {}
  /\ \E i \in DOMAIN notes_file : notes_file[i].done

\* every key of the mapping names a Note that is in the Store
NoStale(snap) ==
  \A k \in DOMAIN snap.sync.mapping : ToInt(k) \in NoteIds(snap.notes)

\* every remote task has a Note, named by a MappingEntry for it, that reflects it
AllTasksReflected ==
  \A t \in AllTasks(remote) :
    \E k \in DOMAIN Mapping :
      /\ Mapping[k].task_id = t.id
      /\ \E i \in DOMAIN notes_file :
           notes_file[i].id = ToInt(k) /\ Reflects(notes_file[i], t)

\* C6 as stated: after a pull in which no remote call failed every remote
\* task is reflected by a mapped Note, whatever adds, toggles and deletes
\* came before.
C6_AnyHistory == (last.op = "pull" /\ last.clean) => AllTasksReflected

\* C6 amended: the same, for a pull that starts with every MappingEntry
\* naming a Note still in the Store (no mapped Note was deleted locally).
C6_PullContract ==
  (last.op = "pull" /\ last.clean /\ NoStale(last.pre)) => AllTasksReflected

C6_Witness ==
  /\ last.op = "pull" /\ last.clean /\ NoStale(last.pre)
  /\ \E j \in DOMAIN last.recon :
       /\ last.recon[j].kind = "create"
       /\ \E t \in AllTasks(remote) : t.id = last.recon[j].task /\ t.origin = 0
       /\ \E i \in DOMAIN notes_file :
            notes_file[i].id = last.recon[j].local /\ notes_file[i].done

\* C7: a mapped Note toggled locally right before bidirectional_sync has,
\* after the sync, the text and the done value it had before it.
C7_LocalWins ==
  (last.op = "sync" /\ last.prev.op = "toggle")
    => \A i \in DOMAIN last.pre.notes :
         (/\ last.pre.notes[i].id = last.prev.arg
          /\ Str(last.pre.notes[i].id) \in DOMAIN last.pre.sync.mapping)
           => /\ i \in DOMAIN notes_file
              /\ notes_file[i].text = last.pre.notes[i].text
              /\ notes_file[i].done = last.pre.notes[i].done

\* the pass of the last operation got its container enumeration
Enumerated ==
  \/ last.op = "push" /\ last.pushListsOk
  \/ last.op = "pull" /\ last.pullListsOk

Persisted == sync_file.last_sync = clock /\ sync_file = last.mem

C9_OneCallPerNote ==
  (last.op = "push" /\ last.pushListsOk /\ ~last.killed)
    => /\ Len(last.calls) = Len(last.pre.notes)
       /\ \A i \in DOMAIN last.pre.notes :
            /\ last.calls[i].note = last.pre.notes[i].id
            /\ last.calls[i].kind =
                 (IF Str(last.pre.notes[i].id) \in DOMAIN last.pre.sync.mapping
                  THEN "update" ELSE "create")

C9_Witness ==
  /\ last.op = "push" /\ ~last.killed
  /\ Len(last.calls) = 2
  /\ ~last.calls[1].ok
  /\ last.calls[1].kind # last.calls[2].kind

\* C10: a pull pass that got its containers reconciles every task of every
\* container whose listing did not fail, before and after a failing one.
C10_OtherListsReconciled ==
  (last.op = "pull" /\ last.pullListsOk /\ ~last.killed)
    => \A l \in ListIds \ last.failLists :
         \A j \in DOMAIN last.pre.remote[l] :
           \E r \in DOMAIN last.recon :
             /\ last.recon[r].task = last.pre.remote[l][j].id
             /\ last.recon[r].list_id = l

C10_Witness ==
  /\ last.op = "pull" /\ last.pullListsOk /\ ~last.killed
  /\ last.failLists = {Lists[1].id}
  /\ last.pre.remote[Lists[1].id] # <<>>
  /\ \E r \in DOMAIN last.recon : last.recon[r].list_id = Lists[2].id

\* C11: a Note whose CreateItem failed has no MappingEntry after that push;
\* every push that gets its containers issues CreateItem for every Note
\* without a MappingEntry and none for a Note that has one; and in every run
\* in which pushes whose calls all succeed keep happening, every Note that
\* stays in the Store eventually has a MappingEntry.
C11_FailedCreateUnmapped ==
  last.op = "push"
    => \A i \in DOMAIN last.calls :
         (last.calls[i].kind = "create" /\ ~last.calls[i].ok)
           => /\ Str(last.calls[i].note) \notin DOMAIN last.mem.mapping
              /\ Str(last.calls[i].note) \notin DOMAIN sync_file.mapping

C11_CreateIffUnmapped ==
  (last.op = "push" /\ last.pushListsOk)
    => \A i \in DOMAIN last.pre.notes :
         LET id == last.pre.notes[i].id IN
         (Str(id) \in DOMAIN last.pre.sync.mapping)
           <=> (\A c \in Creates(last.calls) : last.calls[c].note # id)

\* the last operation was a push in which every call succeeded
PushedCleanly == last.op = "push" /\ last.clean

C11_EventuallyMapped ==
  \A k \in 1..MaxCreated :
    (k \in NoteIds(notes_file))
      ~> (k \notin NoteIds(notes_file) \/ Str(k) \in DOMAIN sync_file.mapping)

C11_RetryUntilMapped ==
  /\ [](C11_FailedCreateUnmapped /\ C11_CreateIffUnmapped)
  /\ ([]<>PushedCleanly => C11_EventuallyMapped)

\* the CreateItem of the second Note failed in a push that recorded the
\* first; the next push creates its task and records it
C11_Witness ==
  /\ last.op = "push" /\ last.prev.op = "push"
  /\ ~last.prev.clean /\ last.prev.pushed # {}
  /\ \E i \in DOMAIN last.calls :
       /\ last.calls[i].kind = "create" /\ last.calls[i].ok
       /\ last.calls[i].note \notin last.prev.pushed
       /\ last.calls[i].note \in NoteIds(last.pre.notes)
       /\ Str(last.calls[i].note) \in DOMAIN sync_file.mapping

\* some entry of the mapping is in the old format
HasLegacy(mapping) == \E k \in DOMAIN mapping : ~IsDict(mapping[k])

\* C12: a push pass that got its containers, over a SyncState with an entry
\* in the old format, raises nothing, makes its call for every Note and
\* persists the SyncState with last_sync set.
C12_LegacyPushCompletes ==
  (last.op = "push" /\ last.pushListsOk /\ ~last.killed
     /\ HasLegacy(last.pre.sync.mapping))
    => /\ ~last.raised
       /\ Len(last.calls) = Len(last.pre.notes)
       /\ sync_file = last.mem
       /\ sync_file.last_sync = clock

\* the mapping with every old-format entry s written as {"task_id": s}
Normalized(mapping) ==
  [k \in DOMAIN mapping |->
     IF IsDict(mapping[k]) THEN mapping[k] ELSE [task_id |-> mapping[k].bare]]

\* C13: the reverse index of a mapping is the one of the mapping with its
\* old-format entries written as structured values, and a pull treats a task
\* named by an old-format entry as mapped: it updates the Note of that
\* entry and creates none.
C13_LegacyReverseIndex ==
  /\ reverse_mapping(sync_file.mapping) = reverse_mapping(Normalized(sync_file.mapping))
  /\ last.op = "pull"
       => /\ reverse_mapping(last.pre.sync.mapping)
               = reverse_mapping(Normalized(last.pre.sync.mapping))
          /\ \A k \in DOMAIN last.pre.sync.mapping :
               ~IsDict(last.pre.sync.mapping[k])
                 => \A r \in DOMAIN last.recon :
                      last.recon[r].task = last.pre.sync.mapping[k].bare
                        => /\ last.recon[r].kind = "update"
                           /\ last.recon[r].local = ToInt(k)

\* a pull visited a task, edited remotely, that an old-format entry names
\* and gave its title and status to the Note of that entry
C13_Witness ==
  /\ last.op = "pull" /\ last.clean
  /\ \E k \in DOMAIN last.pre.sync.mapping :
       /\ ~IsDict(last.pre.sync.mapping[k])
       /\ \E r \in DOMAIN last.recon :
            /\ last.recon[r].task = last.pre.sync.mapping[k].bare
            /\ last.recon[r].kind = "update"
       /\ \E i \in DOMAIN notes_file :
            /\ notes_file[i].id = ToInt(k)
            /\ notes_file[i].done
            /\ ~last.pre.notes[i].done
       /\ Len(notes_file) = Len(last.pre.notes)

\* the file holds a SyncState: a JSON object with a mapping and a last_sync
WellFormed(file) == {"mapping", "last_sync"} \subseteq DOMAIN file

\* C14: a run of the CLI that finds sync_state.json missing or holding
\* anything but a well-formed SyncState loads the empty state and ends
\* without an exception, at load time and in its pass.
C14_LoadRecovers ==
  (last.op \in {"push", "pull"} /\ ~WellFormed(last.pre.sync))
    => /\ ~load_sync_state(last.pre.sync).raised
       /\ WellFormed(load_sync_state(last.pre.sync).state)
       /\ load_sync_state(last.pre.sync).state.mapping = <<>>
       /\ load_sync_state(last.pre.sync).state.last_sync = 0
       /\ ~last.raised

\* what the code does recover from: a missing file and text that is no
\* JSON load as the empty state, and the run ends without an exception
C14_JsonErrorRecovers ==
  (last.op \in {"push", "pull"} /\ FileKind(last.pre.sync) \in {"missing", "not json"})
    => /\ load_sync_state(last.pre.sync) = [state |-> EmptySync, raised |-> FALSE]
       /\ ~last.raised

\* C15: a run in which authenticate fails exits non-zero, makes no Remote
\* Client call and changes neither file; and a run stops before its pass
\* only when authenticate fails or the container list is empty.
C15_AuthOnlyAbort ==
  last.op \in {"push", "pull"}
    => /\ ~last.authOk
            => /\ last.exit # 0
               /\ last.enumerations = 0 /\ last.calls = <<>> /\ last.recon = <<>>
               /\ notes_file = last.pre.notes
               /\ sync_file = last.pre.sync
               /\ remote = last.pre.remote
       /\ ~last.started => (~last.authOk \/ ~last.listsOk)

\* the first half alone, which the code keeps
C15_AuthFailureAborts ==
  (last.op \in {"push", "pull"} /\ ~last.authOk)
    => /\ last.exit # 0 /\ ~last.started
       /\ last.enumerations = 0 /\ last.calls = <<>> /\ last.recon = <<>>
       /\ notes_file = last.pre.notes
       /\ sync_file = last.pre.sync
       /\ remote = last.pre.remote

\* the log entries of a pull for the task with this id
ReconOf(tid) == {r \in DOMAIN last.recon : last.recon[r].task = tid}

CallsOf(id) == {c \in DOMAIN last.calls : last.calls[c].note = id}

\* C17: a push that got its containers issues, for every Note that has a
\* MappingEntry, exactly one call: an UpdateItem addressed to the container
\* and the task of that entry, with title = text and status completed
\* exactly when the Note is done; no CreateItem is issued for it.
C17_MappedNoteUpdated ==
  (last.op = "push" /\ last.pushListsOk /\ ~last.killed)
    => \A i \in DOMAIN last.pre.notes :
         LET note == last.pre.notes[i]
             k == Str(note.id) IN
         k \in DOMAIN last.pre.sync.mapping
           => /\ Cardinality(CallsOf(note.id)) = 1
              /\ \A c \in CallsOf(note.id) :
                   /\ last.calls[c].kind = "update"
                   /\ last.calls[c].list_id = last.pre.sync.mapping[k].list_id
                   /\ last.calls[c].task_id = last.pre.sync.mapping[k].task_id
                   /\ last.calls[c].title = note.text
                   /\ (last.calls[c].status = "completed") <=> note.done

\* a Note mapped to a task of the second container was toggled to done and
\* the push updated that task there
C17_Witness ==
  /\ last.op = "push" /\ last.pushListsOk /\ ~last.killed
  /\ last.prev.op = "toggle"
  /\ \E c \in DOMAIN last.calls :
       /\ last.calls[c].kind = "update" /\ last.calls[c].ok
       /\ last.calls[c].note = last.prev.arg
       /\ last.calls[c].list_id = Lists[2].id
       /\ last.calls[c].status = "completed"
       /\ \E t \in Range(remote[Lists[2].id]) :
            t.id = last.calls[c].task_id /\ t.status = "completed"

\* C18: every CreateItem of a push goes to the first container of the
\* enumeration; when it succeeds, the entry of the Note records the task id
\* the remote returned with that container's id and name, and the task is
\* in that container; a Note that is not done is created as needsAction.
C18_DefaultContainer ==
  last.op = "push"
    => \A c \in Creates(last.calls) :
         LET call == last.calls[c] IN
         /\ call.list_id = get_all_task_lists(TRUE)[1].id
         /\ \A i \in DOMAIN last.pre.notes :
              (last.pre.notes[i].id = call.note /\ ~last.pre.notes[i].done)
                => call.status = "needsAction"
         /\ call.ok
              => /\ last.mem.mapping[Str(call.note)]
                      = [task_id |-> call.task_id,
                         list_id |-> get_all_task_lists(TRUE)[1].id,
                         list_name |-> get_all_task_lists(TRUE)[1].title]
                 /\ ~HasTask(last.pre.remote, call.list_id, call.task_id)
                 /\ \E t \in Range(remote[get_all_task_lists(TRUE)[1].id]) :
                      t.id = call.task_id /\ t.title = call.title /\ t.status = call.status

\* the scenario of the spec: one Note, not done, no entry; after the push
\* the first container has its task and the SyncState its entry
C18_Witness ==
  /\ last.op = "push" /\ last.clean
  /\ Len(last.pre.notes) = 1 /\ ~last.pre.notes[1].done
  /\ last.pre.sync.mapping = <<>>
  /\ Creates(last.calls) = {1}
  /\ sync_file.mapping[Str(1)].list_name = Lists[1].title
  /\ sync_file.last_sync = clock
  /\ Len(remote[Lists[1].id]) = 1
  /\ remote[Lists[1].id][1].status = "needsAction"

\* the last operation was a change made in the TUI
Changed == last.prev.op \in {"add", "toggle", "delete"}

C20_DurableTogether ==
  last.op = "pull"
    => \A r \in DOMAIN last.recon :
         last.recon[r].kind = "create"
           => /\ Str(last.recon[r].local) \in DOMAIN sync_file.mapping
              /\ sync_file.mapping[Str(last.recon[r].local)].task_id = last.recon[r].task

\* C23: ids are unique and assigned in increasing order: no two Notes of
\* the Store share an id, the id of the k-th Note ever created (by add_note
\* or by a pull) is at least k, and an add_note that directly follows a
\* delete_note assigns an id greater than the id that was deleted.
C23_IdsMonotonic ==
  /\ \A i \in DOMAIN notes_file, j \in DOMAIN notes_file :
       i # j => notes_file[i].id # notes_file[j].id
  /\ \A i \in DOMAIN notes_file : notes_file[i].id >= notes_file[i].created
  /\ (last.op = "add" /\ last.prev.op = "delete") => last.arg > last.prev.arg

\* what _generate_id does keep: the ids of the Notes in the Store are
\* pairwise distinct and a new id is greater than every id in the Store
C23_UniqueInStore ==
  /\ \A i \in DOMAIN notes_file, j \in DOMAIN notes_file :
       i # j => notes_file[i].id # notes_file[j].id
  /\ last.op = "add"
       => /\ last.arg \in NoteIds(notes_file)
          /\ \A i \in 1..(Len(notes_file) - 1) : notes_file[i].id < last.arg

Consistent(note) == (note.completed # "None") <=> note.done

\* C24: in every state every Note of the Store has a completed timestamp
\* exactly when it is done; so has every Note a pull created, as created.
C24_CompletedIffDone ==
  /\ \A i \in DOMAIN notes_file : Consistent(notes_file[i])
  /\ \A r \in DOMAIN last.recon :
       last.recon[r].kind = "create" => Consistent(last.recon[r].note)

\* a Note toggled to done got its timestamp, and a pull turned it back to
\* not done and cleared the timestamp
C24_Witness ==
  /\ last.op = "pull" /\ last.clean /\ last.prev.op = "toggle"
  /\ \E i \in DOMAIN last.pre.notes :
       /\ last.pre.notes[i].done /\ last.pre.notes[i].completed = "now"
       /\ ~notes_file[i].done /\ notes_file[i].completed = "None"
       /\ \E r \in DOMAIN last.recon :
            last.recon[r].kind = "update" /\ last.recon[r].local = notes_file[i].id

\* the log entries of a pull before entry r that created a Note with this id
CreatedBefore(r, id) ==
  {c \in 1..(r - 1) : last.recon[c].kind = "create" /\ last.recon[c].local = id}

\* the log entries of a pull for a task whose entry names an id that is in
\* no Note when the task is visited
NotFound ==
  {r \in DOMAIN last.recon :
     /\ last.recon[r].kind = "update"
     /\ last.recon[r].local \notin NoteIds(last.pre.notes)
     /\ CreatedBefore(r, last.recon[r].local) = {}}

\* C25: a pull that got its containers skips a task whose entry names an
\* id that is in no Note: that task has one log entry and it is no create,
\* the entry of that id is, after the pass, what it was before it, and every
\* task of every container whose listing succeeded is visited.
C25_StaleEntrySkipped ==
  (last.op = "pull" /\ last.pullListsOk /\ ~last.killed)
    => /\ Len(last.recon) = Len(Visited(last.pre.remote, last.failLists))
       /\ \A r \in NotFound :
            LET k == Str(last.recon[r].local) IN
            /\ ReconOf(last.recon[r].task) = {r}
            /\ k \in DOMAIN sync_file.mapping
            /\ sync_file.mapping[k] = last.pre.sync.mapping[k]

\* what the code does keep: the skipped task gets no Note of its own, no
\* Note that was in the Store is changed on its behalf, and the pass goes on
C25_SkipChangesNoNote ==
  (last.op = "pull" /\ last.pullListsOk /\ ~last.killed)
    => /\ Len(last.recon) = Len(Visited(last.pre.remote, last.failLists))
       /\ \A r \in NotFound :
            /\ ReconOf(last.recon[r].task) = {r}
            /\ Str(last.recon[r].local) \in DOMAIN sync_file.mapping
            /\ \A i \in DOMAIN last.pre.notes :
                 (\A u \in DOMAIN last.recon :
                    last.recon[u].kind = "update" => last.recon[u].local # last.pre.notes[i].id)
                   => notes_file[i] = last.pre.notes[i]

\* C26: a push leaves the Store as it was; no push and no pull removes a
\* Note from the Store or a key from the mapping, in memory or persisted.
C26_NeverDeletes ==
  last.op \in {"push", "pull"}
    => /\ last.op = "push" => notes_file = last.pre.notes
       /\ Len(notes_file) >= Len(last.pre.notes)
       /\ \A i \in DOMAIN last.pre.notes : notes_file[i].id = last.pre.notes[i].id
       /\ DOMAIN last.pre.sync.mapping \subseteq DOMAIN last.mem.mapping
       /\ DOMAIN last.pre.sync.mapping \subseteq DOMAIN sync_file.mapping

\* a pull over a mapping with an entry updated one Note and created another
C26_Witness ==
  /\ last.op = "pull" /\ last.clean
  /\ last.pre.sync.mapping # <<>>
  /\ \E r \in DOMAIN last.recon : last.recon[r].kind = "update"
  /\ \E r \in DOMAIN last.recon : last.recon[r].kind = "create"
  /\ Len(notes_file) > Len(last.pre.notes)
  /\ Cardinality(DOMAIN sync_file.mapping) > Cardinality(DOMAIN last.pre.sync.mapping)

\* C27: at the end of a pull in which no call failed, every Note whose
\* MappingEntry names a remote task has the title and the status of that
\* task, and no update of the pass was directed at a Note that the same
\* pass had created for another task.
C27_ContentFromMappedTask ==
  (last.op = "pull" /\ last.clean)
    => /\ \A i \in DOMAIN notes_file :
            LET k == Str(notes_file[i].id) IN
            k \in DOMAIN sync_file.mapping
              => \A t \in Named(remote, sync_file.mapping[k]) : Reflects(notes_file[i], t)
       /\ \A r \in DOMAIN last.recon :
            last.recon[r].kind = "update"
              => \A c \in CreatedBefore(r, last.recon[r].local) :
                   last.recon[c].task = last.recon[r].task

\* what the reader of the last read has loaded: load_notes and
\* load_sync_state take a file that holds no whole JSON text as empty
Loaded ==
  IF last.op = "emit" THEN load_notes(last.seen)
  ELSE load_sync_state(IF IsWhole(last.seen) THEN last.seen.whole ELSE NotJson).state

\* C21: whoever reads notes.json or sync_state.json, also while a save of
\* that file is under way, loads the whole content the file had before the
\* save or the whole content the save leaves in it.
C21_AtomicSave ==
  last.op \in {"emit", "load"} => (Loaded = last.before \/ Loaded = last.after)

\* C22: a session has at most one child (--pull or --push) running at any
\* time; while one is running the session is in __init__ or in the join of
\* finally and not in its loop, so it handles no key and makes no call of
\* the Store.
C22_SingleWriter ==
  /\ tui.outstanding <= 1
  /\ tui.outstanding = 1 <=> tui.phase \in {"pulling", "pushing"}
  /\ ~tui.raced

\* the session changed the Store, left the loop and has its push running
C22_Witness ==
  /\ tui.phase = "pushing"
  /\ tui.outstanding = 1
  /\ tui.changed
  /\ notes_file = tui.notes /\ notes_file # <<>>

\* C28: while the session is in its loop and the displayed list is not
\* empty, selected_idx is an index of it, and no toggle or delete has raised
\* IndexError.
C28_SelectionValid ==
  /\ (tui.phase = "running" /\ get_current_notes(tui) # <<>>)
       => tui.selected_idx < Len(get_current_notes(tui))
  /\ tui.raised # "IndexError"

\* C29: a session starts at most one push; it has started one when it ends
\* exactly if it had internet at startup and called add_note, toggle_note or
\* delete_note after the startup pull; before it ends it has started none
\* unless it is waiting for it.
C29_PushOnExit ==
  /\ tui.pushes <= 1
  /\ tui.phase = "closed" => (tui.pushes = 1 <=> (tui.has_internet /\ tui.changed))
  /\ tui.phase = "pushing" => (tui.pushes = 1 /\ tui.has_internet /\ tui.changed)
  /\ tui.phase \in {"pulling", "running"} => tui.pushes = 0

\* a session with internet deleted a Note and ended after its one push
C29_Witness ==
  /\ tui.phase = "closed"
  /\ tui.pushes = 1
  /\ tui.has_internet /\ tui.changed
  /\ tui.notes = <<>>

====
